---- MODULE Spec2Model ----
(***************************************************************************)
(* Model of the service lifecycle controller of ducconit/gocore:           *)
(* HTTPService (service/rest.go, service/http/rest.go) with its Start,     *)
(* Stop and Health methods, the serve goroutine and the watcher goroutine  *)
(* that Start spawns, and the net/http server the controller wraps.        *)
(***************************************************************************)
EXTENDS Integers, Sequences, FiniteSets, TLC

\* Number of goroutines of the embedding program that call Start, Stop and
\* Health on the one controller.
NumCallers == 2

\* Number of Start calls that are accepted (runs of the controller).
MaxRuns == 2

Callers == 1..NumCallers

Runs == 1..MaxRuns

\* The watcher goroutine spawned by the r-th accepted Start.
Watcher(r) == NumCallers + r

Watchers == {Watcher(r) : r \in Runs}

\* The goroutine that calls the blocking Start().
Main == NumCallers + MaxRuns + 1

\* Every goroutine that can execute Stop: the callers, the watchers and the
\* goroutine blocked in Start().
Threads == Callers \cup Watchers \cup {Main}

\* Whether a thread is one of the program's callers, a watcher goroutine or the
\* goroutine of the blocking Start().
Kind(t) == IF t \in Callers THEN "caller" ELSE IF t = Main THEN "main" ELSE "watcher"

NoRet == <<"none", "none", "none">>

VARIABLES
    started,    \* HTTPService.started
    stopChan,   \* HTTPService.stopChan: "open" or "closed"
    inShutdown, \* http.Server.inShutdown of HTTPService.server
    bound,      \* bound[r]: the serve goroutine of run r holds a listener on addr
    panicked,   \* a goroutine has panicked: the process is gone
    run,        \* number of accepted Start calls so far
    tpc,        \* tpc[t]: position of caller or watcher t
    spc,        \* spc[r]: position of the serve goroutine of run r
    serr,       \* serr[r]: what ListenAndServe returned to the serve goroutine of run r
    cancelled,  \* cancelled[r]: the ctx given to the r-th accepted Start is done
    lastRet,    \* <<kind of thread, method, result>> of the call that returned last
    stopWinners,\* stopWinners[r]: the threads whose Stop passed the started check in run r
    logged,     \* logged[r]: the level at which the serve goroutine of run r logged its end
    unlocked,   \* the fields among started and server that were used outside s.mu
    name,       \* HTTPService.name
    addr,       \* HTTPService.addr
    handler,    \* HTTPService.handler
    srvHandler, \* HTTPService.server.Handler
    subscribed, \* the signals WaitOSSignalHandler was called with
    wpc,        \* where the goroutine in WaitOSSignalHandler is
    notified,   \* the context of signal.NotifyContext is done
    delivered,  \* how many signals the process has received
    calls,      \* how many times WaitOSSignalHandler has invoked its callback
    mainRun,    \* the run the blocking Start() began, whose context it cancels
    built,      \* NewMemoryCache has returned a cache
    prefix,     \* cacheImpl.prefix
    items,      \* the entries of the go-cache client under cacheImpl.store
    now,        \* the clock
    hist,       \* hist[k]: the latest Set of key k that no Delete or Clear followed
    got,        \* the key and the result of a Get made in the current state
    gotMulti,   \* a GetMulti made in the current state: the keys requested, whether
                \* the store failed on one of them, and the result
    cfile,      \* the content of the config file on disk
    cfg,        \* what viperConfig.Get returns for each key
    watches,    \* viperConfig.watches: how many callbacks are registered for each key
    lastState,  \* viperConfig.lastState
    readers,    \* the threads that hold viperConfig.watchMu for reading
    cpc,        \* where each thread is in LoadFromFile or Reload
    cop,        \* which of the two each thread is in
    cbLog,      \* the callbacks the last Watch or Reload invoked, with their argument
    seen,       \* seen[k]: the value of k at the last load, reload or Watch of k
    cret,       \* the last config call that returned, and its result
    level,      \* Logger.level
    levelArg,   \* the string the last SetLevelString was called with
    outputs,    \* Logger.outputs
    cores,      \* the cores of Logger.Logger: a writer and the level it was built with
    sink,       \* sink[w]: the messages written to writer w
    added,      \* the writers passed to AddOutput since the last ClearOutputs
    msgs,       \* how many messages were logged
    lastLog,    \* the level and the number of the last message logged
    defaultLogger, \* the package variable defaultLogger
    once,       \* the package variable once has run its function
    allocated,  \* how many loggers NewLogger has created
    dret,       \* the last call of Default or Instance and what it returned
    lastSet,    \* the argument of the last SetDefault
    lastDefault \* what Default returned last, if no SetDefault followed

\* The controller's lifecycle state.
lifeVars == <<started, stopChan, inShutdown, bound, panicked, run, tpc, spc, serr,
              cancelled, lastRet, stopWinners, logged, unlocked>>

\* The controller's configuration.
confVars == <<name, addr, handler, srvHandler>>

\* The state of WaitOSSignalHandler and of the blocking Start().
sigVars == <<subscribed, wpc, notified, delivered, calls, mainRun>>

\* The memory cache and the clock.
cacheVars == <<built, prefix, items, now, hist, got, gotMulti>>

\* The configuration object and its file.
cfgVars == <<cfile, cfg, watches, lastState, readers, cpc, cop, cbLog, seen, cret>>

\* One logger, its writers and the messages they received.
logVars == <<level, levelArg, outputs, cores, sink, added, msgs, lastLog>>

\* The package-level default logger.
defVars == <<defaultLogger, once, allocated, dret, lastSet, lastDefault>>

\* What the service, signal and cache operations leave alone.
restVars == <<cfgVars, logVars, defVars>>

vars == <<lifeVars, confVars, sigVars, cacheVars, restVars>>

\* The keys of the config file, in the order the model visits them, the
\* values a key may have, and the threads that use the configuration: the
\* application and the file watcher viper starts in WatchConfig.
ConfKeyList == <<"host", "port">>

ConfKeys == {ConfKeyList[i] : i \in DOMAIN ConfKeyList}

ConfValues == {"v1", "v2"}

ConfThreads == {"app", "fsnotify"}

\* The keys and values the program caches, and the prefixes it configures.
Keys == {"key1", "key2"}

Values == {"value1", "value2"}

Prefixes == {"", "test"}

\* cacheImpl.buildKey: the key under which the store keeps an entry.
buildKey(p, key) == IF p = "" THEN key ELSE p \o ":" \o key

StoreKeys == {buildKey(p, k) : p \in Prefixes, k \in Keys}

NoItem == [val |-> "none", exp |-> 0]

NoSet == [val |-> "none", at |-> 0, ttl |-> 0]

NoGot == <<"none", "none">>

\* The map GetMulti starts from, and the state with no GetMulti result.
EmptyMap == [k \in {} |-> "none"]

NoMulti == [req |-> {}, storeFailed |-> FALSE, map |-> EmptyMap, isNil |-> TRUE, err |-> "none"]

\* The levels of zapcore.
DebugLevel == -1

InfoLevel == 0

WarnLevel == 1

ErrorLevel == 2

DPanicLevel == 3

PanicLevel == 4

FatalLevel == 5

Levels == DebugLevel..FatalLevel

\* A string is the sequence of its characters; NoStr stands for no string.
NoStr == <<"none">>

\* The writers a program gives to a logger.
Writers == {"w1", "w2"}

NoLog == <<"none", 0>>

\* The nil *Logger, and the mark for no logger recorded.
NilLogger == 0

Unset == -1

NoDefault == <<"none", Unset>>

\* The name, the address and the handler the controller is constructed with.
CtorName == "api"

CtorAddr == ":8089"

CtorHandler == "h0"

\* The fields fs are used, inside the lock or outside it.
Touch(fs, locked) == unlocked' = IF locked THEN unlocked ELSE unlocked \cup fs

\* NewHTTPService: not started, a fresh open stop channel, a fresh server.
Init ==
    /\ started = FALSE
    /\ stopChan = "open"
    /\ inShutdown = FALSE
    /\ bound = [r \in Runs |-> FALSE]
    /\ panicked = FALSE
    /\ run = 0
    /\ tpc = [t \in Threads |-> IF t \in Callers THEN "idle" ELSE "none"]
    /\ spc = [r \in Runs |-> "none"]
    /\ serr = [r \in Runs |-> "none"]
    /\ cancelled = [r \in Runs |-> FALSE]
    /\ lastRet = NoRet
    /\ stopWinners = [r \in 0..MaxRuns |-> {}]
    /\ logged = [r \in Runs |-> "none"]
    /\ unlocked = {}
    /\ name = CtorName
    /\ addr = CtorAddr
    /\ handler = CtorHandler
    /\ srvHandler = CtorHandler
    /\ subscribed = {}
    /\ wpc = "none"
    /\ notified = FALSE
    /\ delivered = 0
    /\ calls = 0
    /\ mainRun = 0
    /\ built = FALSE
    /\ prefix = ""
    /\ items = [sk \in StoreKeys |-> NoItem]
    /\ now = 0
    /\ hist = [k \in Keys |-> NoSet]
    /\ got = NoGot
    /\ gotMulti = NoMulti
    /\ cfile = [k \in ConfKeys |-> "v1"]
    /\ cfg = [k \in ConfKeys |-> "nil"]
    /\ watches = [k \in ConfKeys |-> 0]
    /\ lastState = [k \in ConfKeys |-> "nil"]
    /\ readers = {}
    /\ cpc = [t \in ConfThreads |-> "idle"]
    /\ cop = [t \in ConfThreads |-> "none"]
    /\ cbLog = <<>>
    /\ seen = [k \in ConfKeys |-> "nil"]
    /\ cret = NoRet
    /\ level = InfoLevel
    /\ levelArg = NoStr
    /\ outputs = <<>>
    /\ cores = <<>>
    /\ sink = [w \in Writers |-> <<>>]
    /\ added = {}
    /\ msgs = 0
    /\ lastLog = NoLog
    /\ defaultLogger = NilLogger
    /\ once = FALSE
    /\ allocated = 0
    /\ dret = NoDefault
    /\ lastSet = Unset
    /\ lastDefault = Unset

\* The process ends: its goroutines, its memory and its listeners are gone.
ProcessGone(how) ==
    /\ panicked' = TRUE
    /\ started' = FALSE
    /\ stopChan' = "closed"
    /\ inShutdown' = TRUE
    /\ bound' = [r \in Runs |-> FALSE]
    /\ run' = 0
    /\ tpc' = [t \in Threads |-> "dead"]
    /\ spc' = [r \in Runs |-> "dead"]
    /\ serr' = [r \in Runs |-> "none"]
    /\ cancelled' = [r \in Runs |-> FALSE]
    /\ lastRet' = how
    /\ stopWinners' = [r \in 0..MaxRuns |-> {}]
    /\ logged' = [r \in Runs |-> "none"]
    /\ unlocked' = {}
    /\ name' = CtorName
    /\ addr' = CtorAddr
    /\ handler' = CtorHandler
    /\ srvHandler' = CtorHandler
    /\ subscribed' = {}
    /\ wpc' = "dead"
    /\ notified' = FALSE
    /\ delivered' = 0
    /\ calls' = 0
    /\ mainRun' = 0
    /\ built' = FALSE
    /\ prefix' = ""
    /\ items' = [sk \in StoreKeys |-> NoItem]
    /\ now' = 0
    /\ hist' = [k \in Keys |-> NoSet]
    /\ got' = NoGot
    /\ gotMulti' = NoMulti
    /\ cfile' = [k \in ConfKeys |-> "v1"]
    /\ cfg' = [k \in ConfKeys |-> "nil"]
    /\ watches' = [k \in ConfKeys |-> 0]
    /\ lastState' = [k \in ConfKeys |-> "nil"]
    /\ readers' = {}
    /\ cpc' = [t \in ConfThreads |-> "dead"]
    /\ cop' = [t \in ConfThreads |-> "none"]
    /\ cbLog' = <<>>
    /\ seen' = [k \in ConfKeys |-> "nil"]
    /\ cret' = NoRet
    /\ level' = InfoLevel
    /\ levelArg' = NoStr
    /\ outputs' = <<>>
    /\ cores' = <<>>
    /\ sink' = [w \in Writers |-> <<>>]
    /\ added' = {}
    /\ msgs' = 0
    /\ lastLog' = NoLog
    /\ defaultLogger' = NilLogger
    /\ once' = FALSE
    /\ allocated' = 0
    /\ dret' = NoDefault
    /\ lastSet' = Unset
    /\ lastDefault' = Unset

\* An unrecovered panic in any goroutine ends the process.
Crash == ProcessGone(<<"none", "Stop", "panic">>)

\* Idle callers are interchangeable: a call is made by the lowest-numbered one.
IdleCaller(c) == tpc[c] = "idle" /\ \A d \in Callers : d < c => tpc[d] # "idle"

\* A thread is between the state flip of Stop and Stop's return.
InStop(t) == tpc[t] \in {"stop_close", "stop_shutdown"}

----------------------------------------------------------------------------
\* A Start that never finds the controller started.
StartRejectsNever(st) == FALSE

\* Start: the locked check of started.
StartRejects(st) == st

\* Start, accepted: started is set under the lock, the serve goroutine and
\* the watcher goroutine are spawned, nil is returned.
StartOk(c) ==
    /\ ~panicked
    /\ IdleCaller(c)
    /\ ~StartRejects(started)
    /\ run < MaxRuns
    /\ started' = TRUE
    /\ run' = run + 1
    /\ spc' = [spc EXCEPT ![run + 1] = "listen"]
    /\ tpc' = [tpc EXCEPT ![Watcher(run + 1)] = "select"]
    /\ lastRet' = <<Kind(c), "Start", "ok">>
    /\ UNCHANGED <<stopChan, inShutdown, bound, panicked, serr, cancelled, stopWinners>>
    /\ Touch({"started"}, TRUE)
    /\ UNCHANGED logged
    /\ UNCHANGED <<restVars, cacheVars, confVars, sigVars>>

\* Start, rejected: "service %s already started".
StartAlready(c) ==
    /\ ~panicked
    /\ IdleCaller(c)
    /\ StartRejects(started)
    /\ lastRet' = <<Kind(c), "Start", "AlreadyStarted">>
    /\ UNCHANGED <<started, stopChan, inShutdown, bound, panicked, run, tpc, spc,
                   serr, cancelled, stopWinners>>
    /\ Touch({"started"}, TRUE)
    /\ UNCHANGED logged
    /\ UNCHANGED <<restVars, cacheVars, confVars, sigVars>>

----------------------------------------------------------------------------
\* A Stop that goes on to the shutdown whatever started holds.
StopProceedsUnchecked(st) == TRUE

\* Stop: whether the locked check lets the caller go on to the shutdown.
StopProceeds(st) == st

\* A Stop that leaves started set.
StartedAfterStopKept == TRUE

\* Stop: the value written to started under the lock.
StartedAfterStop == FALSE

\* The locked section of Stop, run by thread t; failNext is where t goes
\* when Stop returns "service %s not started".
StopLocked(t, failNext) ==
    IF StopProceeds(started)
    THEN /\ started' = StartedAfterStop
         /\ tpc' = [tpc EXCEPT ![t] = "stop_close"]
         /\ stopWinners' = [stopWinners EXCEPT ![run] = @ \cup {t}]
         /\ UNCHANGED lastRet
    ELSE /\ tpc' = [tpc EXCEPT ![t] = failNext]
         /\ lastRet' = <<Kind(t), "Stop", "NotRunning">>
         /\ UNCHANGED <<started, stopWinners>>

\* A caller invokes Stop.
StopEnter(c) ==
    /\ ~panicked
    /\ IdleCaller(c)
    /\ StopLocked(c, "idle")
    /\ UNCHANGED <<stopChan, inShutdown, bound, panicked, run, spc, serr, cancelled>>
    /\ Touch({"started"}, TRUE)
    /\ UNCHANGED logged
    /\ UNCHANGED <<restVars, cacheVars, confVars, sigVars>>

\* close(s.stopChan): closing a closed channel panics.
StopClose(t) ==
    /\ ~panicked
    /\ tpc[t] = "stop_close"
    /\ IF stopChan = "open"
       THEN /\ stopChan' = "closed"
            /\ tpc' = [tpc EXCEPT ![t] = "stop_shutdown"]
            /\ UNCHANGED panicked
            /\ UNCHANGED <<started, inShutdown, bound, run, spc, serr, cancelled,
                           lastRet, stopWinners, logged, unlocked>>
            /\ UNCHANGED <<restVars, cacheVars, confVars, sigVars>>
       ELSE Crash

\* A Stop that sets started again when Shutdown returned an error.
StopShutdownRestoresStarted(t) ==
    /\ ~panicked
    /\ tpc[t] = "stop_shutdown"
    /\ inShutdown' = TRUE
    /\ bound' = [r \in Runs |-> IF spc[r] = "serving" THEN FALSE ELSE bound[r]]
    /\ \E res \in {"ok", "ShutdownError"} :
           /\ lastRet' = <<Kind(t), "Stop", res>>
           /\ started' = (res = "ShutdownError" \/ started)
    /\ tpc' = [tpc EXCEPT ![t] = IF t \in Callers THEN "idle" ELSE "done"]
    /\ UNCHANGED <<stopChan, panicked, run, spc, serr, cancelled, stopWinners>>
    /\ Touch({"server"}, FALSE)
    /\ UNCHANGED logged
    /\ UNCHANGED <<restVars, cacheVars, confVars, sigVars>>

\* A Stop that returns without shutting the server down.
StopWithoutShutdown(t) ==
    /\ ~panicked
    /\ tpc[t] = "stop_shutdown"
    /\ lastRet' = <<Kind(t), "Stop", "ok">>
    /\ tpc' = [tpc EXCEPT ![t] = IF t \in Callers THEN "idle" ELSE "done"]
    /\ UNCHANGED <<started, stopChan, inShutdown, bound, panicked, run, spc, serr,
                   cancelled, stopWinners>>
    /\ UNCHANGED <<logged, unlocked>>
    /\ UNCHANGED <<restVars, cacheVars, confVars, sigVars>>

\* s.server.Shutdown: the server is marked shutting down and the listeners
\* it tracks are closed; it returns nil when the connections drained, the
\* context error when the 30 second timeout ran out first, and Stop returns
\* accordingly.
StopShutdown(t) ==
    /\ ~panicked
    /\ tpc[t] = "stop_shutdown"
    /\ inShutdown' = TRUE
    /\ bound' = [r \in Runs |-> IF spc[r] = "serving" THEN FALSE ELSE bound[r]]
    /\ \E res \in {"ok", "ShutdownError"} : lastRet' = <<Kind(t), "Stop", res>>
    /\ tpc' = [tpc EXCEPT ![t] = IF t \in Callers THEN "idle" ELSE "done"]
    /\ UNCHANGED <<started, stopChan, panicked, run, spc, serr, cancelled, stopWinners>>
    /\ Touch({"server"}, FALSE)
    /\ UNCHANGED logged
    /\ UNCHANGED <<restVars, cacheVars, confVars, sigVars>>

----------------------------------------------------------------------------
\* Health: nil iff started was set when read under the read lock.
HealthResult(st) == IF st THEN "ok" ELSE "NotRunning"

Health(c) ==
    /\ ~panicked
    /\ IdleCaller(c)
    /\ lastRet' = <<Kind(c), "Health", HealthResult(started)>>
    /\ UNCHANGED <<started, stopChan, inShutdown, bound, panicked, run, tpc, spc,
                   serr, cancelled, stopWinners>>
    /\ Touch({"started"}, TRUE)
    /\ UNCHANGED logged
    /\ UNCHANGED <<restVars, cacheVars, confVars, sigVars>>

----------------------------------------------------------------------------
\* A serve goroutine that logs every return of ListenAndServe at info level.
LogLevelAlwaysInfo(err) == "info"

\* The serve goroutine logs what ListenAndServe returned: ErrServerClosed at
\* info level, any other error at error level.
LogLevel(err) == IF err # "ErrServerClosed" THEN "error" ELSE "info"

\* The serve goroutine, s.server.ListenAndServe(): a server that was shut
\* down refuses with ErrServerClosed; otherwise the address is bound, which
\* fails when the address is taken, by a listener of this server or by any
\* other process.
ServeListen(r) ==
    /\ ~panicked
    /\ spc[r] = "listen"
    /\ IF inShutdown
       THEN /\ spc' = [spc EXCEPT ![r] = "done"]
            /\ serr' = [serr EXCEPT ![r] = "ErrServerClosed"]
            /\ logged' = [logged EXCEPT ![r] = LogLevel("ErrServerClosed")]
            /\ UNCHANGED bound
       ELSE \/ /\ \A r2 \in Runs : ~bound[r2]
               /\ bound' = [bound EXCEPT ![r] = TRUE]
               /\ spc' = [spc EXCEPT ![r] = "track"]
               /\ UNCHANGED <<serr, logged>>
            \/ /\ spc' = [spc EXCEPT ![r] = "done"]
               /\ serr' = [serr EXCEPT ![r] = "bind"]
               /\ logged' = [logged EXCEPT ![r] = LogLevel("bind")]
               /\ UNCHANGED bound
    /\ Touch({"server"}, FALSE)
    /\ UNCHANGED <<restVars, cacheVars, confVars, sigVars>>
    /\ UNCHANGED <<started, stopChan, inShutdown, panicked, run, tpc, cancelled,
                   lastRet, stopWinners>>

\* Serve registers the listener with the server; a server shut down in the
\* meantime closes the listener and returns ErrServerClosed.
ServeTrack(r) ==
    /\ ~panicked
    /\ spc[r] = "track"
    /\ IF inShutdown
       THEN /\ bound' = [bound EXCEPT ![r] = FALSE]
            /\ spc' = [spc EXCEPT ![r] = "done"]
            /\ serr' = [serr EXCEPT ![r] = "ErrServerClosed"]
            /\ logged' = [logged EXCEPT ![r] = LogLevel("ErrServerClosed")]
       ELSE /\ spc' = [spc EXCEPT ![r] = "serving"]
            /\ UNCHANGED <<bound, serr, logged>>
    /\ Touch({"server"}, FALSE)
    /\ UNCHANGED <<restVars, cacheVars, confVars, sigVars>>
    /\ UNCHANGED <<started, stopChan, inShutdown, panicked, run, tpc, cancelled,
                   lastRet, stopWinners>>

\* The accept loop ends with ErrServerClosed once Shutdown closed its listener.
ServeClosed(r) ==
    /\ ~panicked
    /\ spc[r] = "serving"
    /\ ~bound[r]
    /\ spc' = [spc EXCEPT ![r] = "done"]
    /\ serr' = [serr EXCEPT ![r] = "ErrServerClosed"]
    /\ logged' = [logged EXCEPT ![r] = LogLevel("ErrServerClosed")]
    /\ Touch({"server"}, FALSE)
    /\ UNCHANGED <<started, stopChan, inShutdown, bound, panicked, run, tpc,
                   cancelled, lastRet, stopWinners>>
    /\ UNCHANGED <<restVars, cacheVars, confVars, sigVars>>

----------------------------------------------------------------------------
\* The ctx passed to the r-th accepted Start is cancelled by its owner.
Cancel(r) ==
    /\ ~panicked
    /\ r <= run
    /\ ~cancelled[r]
    /\ cancelled' = [cancelled EXCEPT ![r] = TRUE]
    /\ UNCHANGED <<started, stopChan, inShutdown, bound, panicked, run, tpc, spc,
                   serr, lastRet, stopWinners>>
    /\ UNCHANGED <<logged, unlocked>>
    /\ UNCHANGED <<restVars, cacheVars, confVars, sigVars>>

\* The watcher goroutine's select, case <-ctx.Done(): it calls Stop.
WatcherCancelled(r) ==
    /\ ~panicked
    /\ tpc[Watcher(r)] = "select"
    /\ cancelled[r]
    /\ StopLocked(Watcher(r), "done")
    /\ UNCHANGED <<stopChan, inShutdown, bound, panicked, run, spc, serr, cancelled>>
    /\ Touch({"started"}, TRUE)
    /\ UNCHANGED logged
    /\ UNCHANGED <<restVars, cacheVars, confVars, sigVars>>

\* A watcher goroutine whose select has no case for the stop channel.
WatcherNeverStopped(r) ==
    /\ FALSE
    /\ UNCHANGED vars

\* The watcher goroutine's select, case <-s.stopChan: it returns.
WatcherStopped(r) ==
    /\ ~panicked
    /\ tpc[Watcher(r)] = "select"
    /\ stopChan = "closed"
    /\ tpc' = [tpc EXCEPT ![Watcher(r)] = "done"]
    /\ UNCHANGED <<started, stopChan, inShutdown, bound, panicked, run, spc, serr,
                   cancelled, lastRet, stopWinners>>
    /\ UNCHANGED <<logged, unlocked>>
    /\ UNCHANGED <<restVars, cacheVars, confVars, sigVars>>

----------------------------------------------------------------------------
Next ==
    \/ \E c \in Callers : StartOk(c)
    \/ \E c \in Callers : StartAlready(c)
    \/ \E c \in Callers : StopEnter(c)
    \/ \E t \in Threads : StopClose(t)
    \/ \E t \in Threads : StopShutdown(t)
    \/ \E c \in Callers : Health(c)
    \/ \E r \in Runs : ServeListen(r)
    \/ \E r \in Runs : ServeTrack(r)
    \/ \E r \in Runs : ServeClosed(r)
    \/ \E r \in Runs : Cancel(r)
    \/ \E r \in Runs : WatcherCancelled(r)
    \/ \E r \in Runs : WatcherStopped(r)

Spec == Init /\ [][Next]_vars

----------------------------------------------------------------------------
\* Some thread is between the state flip of Stop and Stop's return.
AnyInStop == \E t \in Threads : InStop(t)

\* No call is in progress and no spawned goroutine has a step left to take
\* other than waiting: callers are idle, watchers have returned, serve
\* goroutines are in their accept loop or have returned.
Settled ==
    /\ \A t \in Threads : tpc[t] \in {"idle", "none", "done"}
    /\ \A r \in Runs : spc[r] \in {"none", "serving", "done"}

\* The state of the controller and of its resources that Stop acts on.
resources == <<started, stopChan, inShutdown, bound>>

\* C1: over any interleaving of Start, Stop and cancellation, restarts
\* included, the stop channel is closed at most once, so that no Stop panics
\* on closing a closed channel.
C1_StopSignalClosedOnce == ~panicked

\* C2: in a sequence of calls made one after the other with no cancellation
\* (Start, Stop, Start, ...), after a Start that returned nil the serve
\* goroutine of that run keeps serving: it has not returned, unless the
\* address could not be bound.
C2_RestartServes ==
    (/\ lastRet = <<"caller", "Start", "ok">>
     /\ ~AnyInStop
     /\ \A r \in Runs : ~cancelled[r])
    => (spc[run] = "done" => serr[run] = "bind")

\* C3: of the callers that invoke Stop on a started controller, exactly one
\* per run passes the started check and performs the shutdown; a caller's
\* Stop that returns NotRunning leaves started, the stop channel and the
\* server as they were.
C3_OneCallerStops ==
    [][/\ \A r \in 0..MaxRuns : Cardinality(stopWinners'[r] \cap Callers) <= 1
       /\ (lastRet' = <<"caller", "Stop", "NotRunning">> /\ lastRet' # lastRet)
              => UNCHANGED resources]_vars

\* C3 witness: a caller is performing the shutdown of the current run and
\* the last call to return was another caller's Stop, with NotRunning.
C3_Witness ==
    /\ run >= 1
    /\ lastRet = <<"caller", "Stop", "NotRunning">>
    /\ \E c \in Callers : InStop(c) /\ stopWinners[run] = {c}

\* C4: when cancellation and an explicit Stop race, one thread per run,
\* watcher or caller, passes the started check, so that each run has one
\* close of the stop channel and one shutdown call; the watcher's Stop that
\* returns NotRunning leaves started, the stop channel and the server as they
\* were.
C4_OneOfWatcherAndCallerStops ==
    [][/\ \A r \in 0..MaxRuns : Cardinality(stopWinners'[r]) <= 1
       /\ (lastRet' = <<"watcher", "Stop", "NotRunning">> /\ lastRet' # lastRet)
              => UNCHANGED resources]_vars

\* C4 witness: in the first run the ctx is cancelled, a caller is performing
\* the shutdown and the watcher's Stop has just returned NotRunning.
C4_Witness ==
    /\ run = 1
    /\ cancelled[1]
    /\ lastRet = <<"watcher", "Stop", "NotRunning">>
    /\ tpc[Watcher(1)] = "done"
    /\ \E c \in Callers : InStop(c) /\ stopWinners[1] = {c}

\* C5: once the ctx of the current run is cancelled and every task has run
\* to its end, the controller is stopped and no listener is bound.
C5_CancelStops ==
    (~panicked /\ run >= 1 /\ cancelled[run] /\ Settled)
    => (~started /\ \A r \in Runs : ~bound[r])

\* C6: once a run has ended (a later run has begun, or the controller is
\* not started) and no Stop is in progress any more, the step its watcher
\* takes when it leaves the select changes neither started nor the stop
\* channel nor the server.
C6_EndedRunWatcherIsNoOp ==
    [][\A r \in Runs :
          (/\ tpc[Watcher(r)] = "select"
           /\ tpc'[Watcher(r)] # "select"
           /\ r < run \/ ~started
           /\ ~AnyInStop
           /\ ~panicked')
          => UNCHANGED resources]_vars

\* C7: when the bind of the current run has failed the controller is not
\* started and the watcher of that run is not left waiting.
C7_BindFailedStops ==
    (run >= 1 /\ serr[run] = "bind")
    => (~started /\ tpc[Watcher(run)] # "select")

\* C8: at the step in which Start is accepted and returns nil, the listener
\* of the new run is bound.
C8_StartReturnsBound ==
    [][(~started /\ started') => bound'[run']]_vars

\* C9: Health returns nil exactly when the controller is Running: started,
\* with the listener of the current run bound.
C9_HealthIffRunning ==
    (HealthResult(started) = "ok") <=> (started /\ run >= 1 /\ bound[run])

\* C10: no Start is accepted while a Stop is in progress (while a thread is
\* in Stop the controller is not started), and no Stop is accepted before
\* the listener of the current run is bound.
C10_LegalTransitions ==
    [][/\ AnyInStop' => ~started'
       /\ (started /\ ~started' /\ ~panicked') => bound[run]]_vars

\* The serve goroutine of run r is in its accept loop on an open listener.
Accepting(r) == spc[r] = "serving" /\ bound[r]

\* C11: a Start on a started controller returns AlreadyStarted and changes
\* nothing: started stays set, no serve or watcher goroutine is spawned, the
\* listeners stay as they are and at most one is bound; a new run begins
\* only from a controller that is not started.
C11_StartAlreadyStartedNoEffect ==
    [][/\ (lastRet' = <<"caller", "Start", "AlreadyStarted">> /\ lastRet' # lastRet)
              => /\ started /\ started'
                 /\ UNCHANGED <<resources, run, tpc, spc, serr>>
                 /\ Cardinality({r \in Runs : bound'[r]}) <= 1
       /\ (run' # run /\ ~panicked') => ~started]_vars

\* C11 witness: the controller is started with one listener bound and the
\* last call to return was a Start, with AlreadyStarted.
C11_Witness ==
    /\ lastRet = <<"caller", "Start", "AlreadyStarted">>
    /\ started
    /\ run = 1
    /\ Accepting(1)

\* C12: a Stop on a controller that is not started returns NotRunning and
\* changes nothing: started, the stop channel and the server stay as they
\* are; a Stop goes on to the shutdown only from a started controller.
C12_StopNotRunningNoEffect ==
    [][/\ (lastRet'[2] = "Stop" /\ lastRet'[3] = "NotRunning" /\ lastRet' # lastRet)
              => /\ ~started /\ ~started'
                 /\ UNCHANGED <<resources, run, spc, serr, stopWinners>>
       /\ (stopWinners' # stopWinners /\ ~panicked') => started]_vars

\* C12 witness: the one run of the controller was stopped, the Stop has
\* returned, and a further Stop has returned NotRunning.
C12_Witness ==
    /\ lastRet = <<"caller", "Stop", "NotRunning">>
    /\ run = 1
    /\ ~started
    /\ inShutdown
    /\ ~AnyInStop

\* C13: when Shutdown fails, Stop returns the ShutdownError, and unless a
\* Start was accepted since this Stop passed its check the controller is
\* stopped: Health returns NotRunning and a further Stop is rejected.
C13_ShutdownErrorStillStops ==
    [][\A t \in Threads :
          (/\ tpc[t] = "stop_shutdown"
           /\ tpc'[t] # "stop_shutdown"
           /\ lastRet'[3] = "ShutdownError"
           /\ t \in stopWinners[run])
          => /\ lastRet' = <<Kind(t), "Stop", "ShutdownError">>
             /\ ~started'
             /\ HealthResult(started') = "NotRunning"
             /\ ~StopProceeds(started')]_vars

\* C13 witness: the Stop of the first run has returned a ShutdownError and
\* the controller is not started.
C13_Witness ==
    /\ lastRet = <<"caller", "Stop", "ShutdownError">>
    /\ run = 1
    /\ ~started
    /\ ~AnyInStop

\* C14: after a Stop has returned nil no serve goroutine accepts
\* connections, whatever the serve goroutine had done when Stop ran, and
\* unless a Start was accepted since that Stop passed its check the
\* controller is not started and Health returns NotRunning.
C14_StoppedNotServing ==
    (lastRet[2] = "Stop" /\ lastRet[3] = "ok")
    => /\ \A r \in Runs : ~Accepting(r)
       /\ stopWinners[run] # {}
              => (~started /\ HealthResult(started) = "NotRunning")

\* C14 witness: Stop has returned nil while the serve goroutine of the run
\* it stopped has not begun to listen.
C14_Witness ==
    /\ lastRet = <<"caller", "Stop", "ok">>
    /\ run = 1
    /\ spc[1] = "listen"
    /\ ~started

\* The handlers a caller may install.
Handlers == {"h0", "h1"}

\* The address NewHTTPService uses when no WithAddress option is given.
DefaultAddr == ":3000"

\* A SetHandler that rebuilds the server from the defaults and so loses the
\* configured address.
SetHandlerResetsAddr(c, h) ==
    /\ IdleCaller(c)
    /\ ~panicked
    /\ handler' = h
    /\ srvHandler' = h
    /\ addr' = DefaultAddr
    /\ Touch({"server"}, TRUE)
    /\ UNCHANGED <<started, stopChan, inShutdown, bound, panicked, run, tpc, spc,
                   serr, cancelled, lastRet, stopWinners, logged, name>>
    /\ UNCHANGED <<sigVars, cacheVars, restVars>>

\* SetHandler(handler): under the lock, stores the handler in the controller
\* and in its server.
SetHandler(c, h) ==
    /\ IdleCaller(c)
    /\ ~panicked
    /\ handler' = h
    /\ srvHandler' = h
    /\ Touch({"server"}, TRUE)
    /\ UNCHANGED <<started, stopChan, inShutdown, bound, panicked, run, tpc, spc,
                   serr, cancelled, lastRet, stopWinners, logged, name, addr>>
    /\ UNCHANGED <<sigVars, cacheVars, restVars>>

\* Server(): returns the server field without taking the lock.
ServerAccessor(c) ==
    /\ IdleCaller(c)
    /\ ~panicked
    /\ Touch({"server"}, FALSE)
    /\ UNCHANGED <<started, stopChan, inShutdown, bound, panicked, run, tpc, spc,
                   serr, cancelled, lastRet, stopWinners, logged>>
    /\ UNCHANGED <<restVars, cacheVars, confVars, sigVars>>

\* Name(): returns the name field.
Name(c) ==
    /\ IdleCaller(c)
    /\ ~panicked
    /\ lastRet' = <<"caller", "Name", name>>
    /\ UNCHANGED <<started, stopChan, inShutdown, bound, panicked, run, tpc, spc,
                   serr, cancelled, stopWinners, logged, unlocked>>
    /\ UNCHANGED <<restVars, cacheVars, confVars, sigVars>>

\* The calls of the controller's methods together with the accessors and
\* SetHandler, with contexts that are never cancelled.
NextAccessors ==
    \/ \E c \in Callers : StartOk(c)
    \/ \E c \in Callers : StartAlready(c)
    \/ \E c \in Callers : StopEnter(c)
    \/ \E t \in Threads : StopClose(t)
    \/ \E t \in Threads : StopShutdown(t)
    \/ \E c \in Callers : Health(c)
    \/ \E r \in Runs : ServeListen(r)
    \/ \E r \in Runs : ServeTrack(r)
    \/ \E r \in Runs : ServeClosed(r)
    \/ \E r \in Runs : WatcherStopped(r)
    \/ \E c \in Callers, h \in Handlers : SetHandler(c, h)
    \/ \E c \in Callers : ServerAccessor(c)
    \/ \E c \in Callers : Name(c)

SpecAccessors == Init /\ [][NextAccessors]_vars

\* The signals the process may receive.
Signals == {"INT", "TERM", "HUP", "USR1"}

\* The signals that end a Go program when nothing is notified of them; the Go
\* runtime catches the others and takes no action.
Fatal == {"INT", "TERM", "HUP"}

\* How many signals arrive in the life of the process.
MaxSignals == 2

\* A fatal signal nobody is notified of ends the process.
Killed == ProcessGone(<<"none", "signal", "killed">>)

\* WaitOSSignalHandler(f, sigs) up to the wait: with no signal to wait for it
\* returns, otherwise signal.NotifyContext registers for the signals.
WaitEnter(sigs) ==
    /\ calls' = 0
    /\ subscribed' = sigs
    /\ notified' = FALSE
    /\ wpc' = IF sigs = {} THEN "returned" ELSE "wait"
    /\ UNCHANGED delivered

\* The program calls WaitOSSignalHandler with a callback of its own.
WaitCall(sigs) ==
    /\ ~panicked
    /\ tpc[Main] = "none"
    /\ wpc \in {"none", "returned"}
    /\ WaitEnter(sigs)
    /\ UNCHANGED <<restVars, cacheVars, lifeVars, confVars, mainRun>>

\* A signal arrives. From NotifyContext until stop() the subscribed signals
\* are caught and the first of them ends the context.
SignalArrives(sig) ==
    /\ ~panicked
    /\ delivered < MaxSignals
    /\ IF wpc \in {"wait", "callback"} /\ sig \in subscribed
       THEN /\ notified' = TRUE
            /\ delivered' = delivered + 1
            /\ UNCHANGED <<restVars, cacheVars, lifeVars, confVars, subscribed, wpc, calls, mainRun>>
       ELSE IF sig \in Fatal
            THEN Killed
            ELSE /\ delivered' = delivered + 1
                 /\ UNCHANGED <<restVars, cacheVars, lifeVars, confVars, subscribed, wpc, notified,
                                calls, mainRun>>

\* A WaitOSSignalHandler that invokes the callback without waiting for the
\* context to end.
WaitWakeUnsignalled ==
    /\ ~panicked
    /\ wpc = "wait"
    /\ wpc' = "callback"
    /\ calls' = calls + 1
    /\ UNCHANGED <<restVars, cacheVars, lifeVars, confVars, subscribed, notified, delivered, mainRun>>

\* A WaitOSSignalHandler that invokes the callback again while the context is
\* ended.
WaitWakePerSignal ==
    /\ ~panicked
    /\ wpc \in {"wait", "callback"}
    /\ notified
    /\ wpc' = "callback"
    /\ calls' = calls + 1
    /\ UNCHANGED <<restVars, cacheVars, lifeVars, confVars, subscribed, notified, delivered, mainRun>>

\* <-ctx.Done() returns and WaitOSSignalHandler invokes f.
WaitWake ==
    /\ ~panicked
    /\ wpc = "wait"
    /\ notified
    /\ wpc' = "callback"
    /\ calls' = calls + 1
    /\ UNCHANGED <<restVars, cacheVars, lifeVars, confVars, subscribed, notified, delivered, mainRun>>

\* The program's callback returns, the deferred stop() unregisters the
\* signals and WaitOSSignalHandler returns.
WaitReturn ==
    /\ ~panicked
    /\ tpc[Main] = "none"
    /\ wpc = "callback"
    /\ wpc' = "returned"
    /\ UNCHANGED <<restVars, cacheVars, lifeVars, confVars, subscribed, notified, delivered, calls, mainRun>>

\* WaitOSSignalHandler on its own, called with any list of signals.
NextWait ==
    \/ \E sigs \in SUBSET Signals : WaitCall(sigs)
    \/ \E sig \in Signals : SignalArrives(sig)
    \/ WaitWake
    \/ WaitReturn

SpecWait == Init /\ [][NextWait]_vars

----------------------------------------------------------------------------
\* The signals the blocking Start() waits for: os.Interrupt and SIGTERM.
MainSignals == {"INT", "TERM"}

\* The goroutine that uses the controller while Main is in Start().
Other == 1

\* Start(): StartDaemon is accepted.
MainStartOk ==
    /\ ~panicked
    /\ tpc[Main] = "none"
    /\ ~StartRejects(started)
    /\ run < MaxRuns
    /\ started' = TRUE
    /\ run' = run + 1
    /\ mainRun' = run + 1
    /\ spc' = [spc EXCEPT ![run + 1] = "listen"]
    /\ tpc' = [tpc EXCEPT ![Watcher(run + 1)] = "select", ![Main] = "daemon"]
    /\ Touch({"started"}, TRUE)
    /\ UNCHANGED <<stopChan, inShutdown, bound, panicked, serr, cancelled, lastRet,
                   stopWinners, logged>>
    /\ UNCHANGED <<restVars, cacheVars, confVars, subscribed, wpc, notified, delivered, calls>>

\* Start(): StartDaemon is rejected and Start returns its error.
MainStartAlready ==
    /\ ~panicked
    /\ tpc[Main] = "none"
    /\ StartRejects(started)
    /\ lastRet' = <<Kind(Main), "Start", "AlreadyStarted">>
    /\ Touch({"started"}, TRUE)
    /\ UNCHANGED <<started, stopChan, inShutdown, bound, panicked, run, tpc, spc,
                   serr, cancelled, stopWinners, logged>>
    /\ UNCHANGED <<restVars, cacheVars, confVars, sigVars>>

\* Start(): the call of utils.WaitOSSignalHandler.
MainWait ==
    /\ ~panicked
    /\ tpc[Main] = "daemon"
    /\ WaitEnter(MainSignals)
    /\ tpc' = [tpc EXCEPT ![Main] = "waiting"]
    /\ UNCHANGED <<started, stopChan, inShutdown, bound, panicked, run, spc, serr,
                   cancelled, lastRet, stopWinners, logged, unlocked>>
    /\ UNCHANGED <<restVars, cacheVars, confVars, mainRun>>

\* Start(): the callback calls s.Stop(context.Background()).
MainStop ==
    /\ ~panicked
    /\ tpc[Main] = "waiting"
    /\ wpc = "callback"
    /\ StopLocked(Main, "done")
    /\ Touch({"started"}, TRUE)
    /\ UNCHANGED <<stopChan, inShutdown, bound, panicked, run, spc, serr, cancelled,
                   logged>>
    /\ UNCHANGED <<restVars, cacheVars, confVars, sigVars>>

\* Start(): the callback has returned; stop() unregisters the signals, Start
\* returns nil and its deferred cancel() ends the context of its run.
MainReturn ==
    /\ ~panicked
    /\ tpc[Main] = "done"
    /\ wpc = "callback"
    /\ wpc' = "returned"
    /\ tpc' = [tpc EXCEPT ![Main] = "none"]
    /\ cancelled' = [cancelled EXCEPT ![mainRun] = TRUE]
    /\ lastRet' = <<Kind(Main), "Start", "ok">>
    /\ UNCHANGED <<started, stopChan, inShutdown, bound, panicked, run, spc, serr,
                   stopWinners, logged, unlocked>>
    /\ UNCHANGED <<restVars, cacheVars, confVars, subscribed, notified, delivered, calls, mainRun>>

\* The blocking Start() of the main goroutine, the goroutines it spawns, the
\* signals, and one other goroutine that starts and stops the controller.
NextBlocking ==
    \/ MainStartOk
    \/ MainStartAlready
    \/ MainWait
    \/ \E sig \in Signals : SignalArrives(sig)
    \/ WaitWake
    \/ MainStop
    \/ MainReturn
    \/ StartOk(Other)
    \/ StopEnter(Other)
    \/ \E t \in Threads : StopClose(t)
    \/ \E t \in Threads : StopShutdown(t)
    \/ \E r \in Runs : ServeListen(r)
    \/ \E r \in Runs : ServeTrack(r)
    \/ \E r \in Runs : ServeClosed(r)
    \/ \E r \in Runs : WatcherCancelled(r)
    \/ \E r \in Runs : WatcherStopped(r)

SpecBlocking == Init /\ [][NextBlocking]_vars

\* The clock stops at MaxTime.
MaxTime == 6

\* cache.DefaultExpiration, in the unit of the clock (minutes).
DefaultExpiration == 5

\* The expirations a caller passes to Set.
TTLs == {0, 1, 2}

\* go-cache: an entry set with duration d > 0 expires at now + d, one set with
\* another duration does not expire (Expiration 0).
Expiry(d) == IF d > 0 THEN now + d ELSE 0

\* go-cache: Get finds an entry that is present and whose expiration, if it has
\* one, is not before the clock.
Found(it) == it # NoItem /\ ~(it.exp > 0 /\ now > it.exp)

\* NewMemoryCache(opts): default options with the given KeyPrefix.
NewMemoryCache(p) ==
    /\ ~built
    /\ built' = TRUE
    /\ prefix' = p
    /\ UNCHANGED <<items, now, hist, got, gotMulti>>
    /\ UNCHANGED <<lifeVars, confVars, sigVars, restVars>>

\* Set(ctx, key, value, expiration): an expiration of 0 is replaced by
\* opts.DefaultExpiration and the entry is stored under buildKey(key).
CacheSet(k, v, ttl) ==
    /\ built
    /\ LET expiration == IF ttl = 0 THEN DefaultExpiration ELSE ttl
       IN  items' = [items EXCEPT ![buildKey(prefix, k)] =
                         [val |-> v, exp |-> Expiry(expiration)]]
    /\ hist' = [hist EXCEPT ![k] = [val |-> v, at |-> now, ttl |-> ttl]]
    /\ got' = NoGot
    /\ gotMulti' = NoMulti
    /\ UNCHANGED <<built, prefix, now>>
    /\ UNCHANGED <<lifeVars, confVars, sigVars, restVars>>

\* Get(ctx, key): the value stored under buildKey(key), or the store's
\* not-found error.
CacheGet(k) ==
    /\ built
    /\ LET it == items[buildKey(prefix, k)]
       IN  got' = <<k, IF Found(it) THEN it.val ELSE "NotFound">>
    /\ gotMulti' = NoMulti
    /\ UNCHANGED <<built, prefix, items, now, hist>>
    /\ UNCHANGED <<lifeVars, confVars, sigVars, restVars>>

\* A Delete that removes the entry stored under the key without the prefix.
CacheDeleteUnprefixed(k) ==
    /\ built
    /\ items' = [items EXCEPT ![k] = NoItem]
    /\ hist' = [hist EXCEPT ![k] = NoSet]
    /\ got' = NoGot
    /\ gotMulti' = NoMulti
    /\ UNCHANGED <<built, prefix, now>>
    /\ UNCHANGED <<lifeVars, confVars, sigVars, restVars>>

\* Delete(ctx, key): removes the entry stored under buildKey(key).
CacheDelete(k) ==
    /\ built
    /\ items' = [items EXCEPT ![buildKey(prefix, k)] = NoItem]
    /\ hist' = [hist EXCEPT ![k] = NoSet]
    /\ got' = NoGot
    /\ gotMulti' = NoMulti
    /\ UNCHANGED <<built, prefix, now>>
    /\ UNCHANGED <<lifeVars, confVars, sigVars, restVars>>

\* Clear(ctx): flushes the store.
CacheClear ==
    /\ built
    /\ items' = [sk \in StoreKeys |-> NoItem]
    /\ hist' = [k \in Keys |-> NoSet]
    /\ got' = NoGot
    /\ gotMulti' = NoMulti
    /\ UNCHANGED <<built, prefix, now>>
    /\ UNCHANGED <<lifeVars, confVars, sigVars, restVars>>

\* Time passes.
Tick ==
    /\ built
    /\ now < MaxTime
    /\ now' = now + 1
    /\ got' = NoGot
    /\ gotMulti' = NoMulti
    /\ UNCHANGED <<built, prefix, items, hist>>
    /\ UNCHANGED <<lifeVars, confVars, sigVars, restVars>>

\* The key lists a caller passes to GetMulti: some of the keys, in any order.
KeyLists ==
    UNION {{l \in [1..Cardinality(ks) -> ks] : \A i, j \in DOMAIN l : l[i] = l[j] => i = j}
              : ks \in SUBSET Keys}

\* c.Get(ctx, key) as GetMulti sees it: the store's value, its not-found
\* error, or another error of the store for the keys in failing.
GetFor(key, failing) ==
    LET it == items[buildKey(prefix, key)]
    IN  IF key \in failing THEN [val |-> "none", err |-> "StoreError"]
        ELSE IF Found(it) THEN [val |-> it.val, err |-> "none"]
        ELSE [val |-> "none", err |-> "NotFound"]

\* A GetMulti that files a value under its key in the store.
RECURSIVE GetMultiLoopStoreKeyed(_, _, _)
GetMultiLoopStoreKeyed(ks, failing, result) ==
    IF ks = <<>>
    THEN [map |-> result, isNil |-> FALSE, err |-> "none"]
    ELSE LET key == Head(ks)
             r == GetFor(key, failing)
         IN  IF r.err = "StoreError"
             THEN [map |-> EmptyMap, isNil |-> TRUE, err |-> "StoreError"]
             ELSE IF r.err = "NotFound"
             THEN GetMultiLoopStoreKeyed(Tail(ks), failing, result)
             ELSE GetMultiLoopStoreKeyed(Tail(ks), failing,
                      [k \in DOMAIN result \cup {buildKey(prefix, key)} |->
                          IF k = buildKey(prefix, key) THEN r.val ELSE result[k]])

\* The loop of GetMulti over the remaining keys ks: a not-found key is skipped,
\* another error ends the call with no map, a value is filed under the key.
RECURSIVE GetMultiLoop(_, _, _)
GetMultiLoop(ks, failing, result) ==
    IF ks = <<>>
    THEN [map |-> result, isNil |-> FALSE, err |-> "none"]
    ELSE LET key == Head(ks)
             r == GetFor(key, failing)
         IN  IF r.err = "StoreError"
             THEN [map |-> EmptyMap, isNil |-> TRUE, err |-> "StoreError"]
             ELSE IF r.err = "NotFound"
             THEN GetMultiLoop(Tail(ks), failing, result)
             ELSE GetMultiLoop(Tail(ks), failing,
                      [k \in DOMAIN result \cup {key} |->
                          IF k = key THEN r.val ELSE result[k]])

\* GetMulti(ctx, keys); the store fails on the keys in failing.
GetMulti(ks, failing) ==
    /\ built
    /\ LET res == GetMultiLoop(ks, failing, EmptyMap)
           req == {ks[i] : i \in DOMAIN ks}
       IN  gotMulti' = [req |-> req, storeFailed |-> req \cap failing # {},
                        map |-> res.map, isNil |-> res.isNil, err |-> res.err]
    /\ got' = NoGot
    /\ UNCHANGED <<built, prefix, items, now, hist>>
    /\ UNCHANGED <<lifeVars, confVars, sigVars, restVars>>

\* A memory cache, with or without a key prefix, used over time.
NextCache ==
    \/ \E p \in Prefixes : NewMemoryCache(p)
    \/ \E k \in Keys, v \in Values, ttl \in TTLs : CacheSet(k, v, ttl)
    \/ \E k \in Keys : CacheGet(k)
    \/ \E k \in Keys : CacheDelete(k)
    \/ CacheClear
    \/ Tick
    \/ \E ks \in KeyLists, failing \in SUBSET Keys : GetMulti(ks, failing)

SpecCache == Init /\ [][NextCache]_vars

\* How many callbacks Watch registers for one key.
MaxWatches == 2

Range(f) == {f[i] : i \in DOMAIN f}

\* The calls callback(newValue) of Reload for one key: every callback of the
\* key, in the order of registration, when the value differs from lastState.
NotifyKey(k, newValue) ==
    IF lastState[k] # newValue
    THEN [i \in 1..watches[k] |-> <<k, i, newValue>>]
    ELSE <<>>

\* The loop of Reload over the watched keys.
RECURSIVE NotifyLoop(_, _)
NotifyLoop(keys, newCfg) ==
    IF keys = <<>> THEN <<>>
    ELSE NotifyKey(Head(keys), newCfg[Head(keys)]) \o NotifyLoop(Tail(keys), newCfg)

\* The file changes on disk.
EditFile(k, v) ==
    /\ cfile[k] # v
    /\ cfile' = [cfile EXCEPT ![k] = v]
    /\ UNCHANGED <<cfg, watches, lastState, readers, cpc, cop, cbLog, seen, cret>>
    /\ UNCHANGED <<lifeVars, confVars, sigVars, cacheVars, logVars, defVars>>

\* LoadFromFile(path) up to its call of updateLastState: the file is missing
\* or unreadable and the call returns an error, or viper reads it.
LoadFromFile(t, ok) ==
    /\ t = "app"
    /\ cpc[t] = "idle"
    /\ IF ok
       THEN /\ cfg' = cfile
            /\ cpc' = [cpc EXCEPT ![t] = "update"]
            /\ cop' = [cop EXCEPT ![t] = "LoadFromFile"]
            /\ UNCHANGED cret
       ELSE /\ cret' = <<t, "LoadFromFile", "error">>
            /\ UNCHANGED <<cfg, cpc, cop>>
    /\ UNCHANGED <<cfile, watches, lastState, readers, cbLog, seen>>
    /\ UNCHANGED <<lifeVars, confVars, sigVars, cacheVars, logVars, defVars>>

\* Reload() up to its call of updateLastState: ReadInConfig fails and the call
\* returns the error, or it takes the read lock (kept until the return) and
\* notifies the callbacks of the keys that changed. The file watcher calls it
\* once LoadFromFile has read a file.
Reload(t, ok) ==
    /\ cpc[t] = "idle"
    /\ t = "fsnotify" => \E k \in ConfKeys : cfg[k] # "nil"
    /\ IF ok
       THEN /\ cfg' = cfile
            /\ readers' = readers \cup {t}
            /\ cbLog' = NotifyLoop(ConfKeyList, cfile)
            /\ seen' = cfile
            /\ cpc' = [cpc EXCEPT ![t] = "update"]
            /\ cop' = [cop EXCEPT ![t] = "Reload"]
            /\ UNCHANGED cret
       ELSE /\ cret' = <<t, "Reload", "error">>
            /\ UNCHANGED <<cfg, readers, cbLog, seen, cpc, cop>>
    /\ UNCHANGED <<cfile, watches, lastState>>
    /\ UNCHANGED <<lifeVars, confVars, sigVars, cacheVars, logVars, defVars>>

\* updateLastState(): takes the write lock, which needs every read lock
\* released, and records the current value of every watched key.
UpdateLastState(t) ==
    /\ cpc[t] = "update"
    /\ readers = {}
    /\ lastState' = [k \in ConfKeys |-> IF watches[k] > 0 THEN cfg[k] ELSE lastState[k]]
    /\ seen' = cfg
    /\ cpc' = [cpc EXCEPT ![t] = "return"]
    /\ UNCHANGED <<cfile, cfg, watches, readers, cop, cbLog, cret>>
    /\ UNCHANGED <<lifeVars, confVars, sigVars, cacheVars, logVars, defVars>>

\* LoadFromFile or Reload returns nil; the deferred RUnlock of Reload runs.
ConfReturn(t) ==
    /\ cpc[t] = "return"
    /\ readers' = readers \ {t}
    /\ cret' = <<t, cop[t], "ok">>
    /\ cpc' = [cpc EXCEPT ![t] = "idle"]
    /\ cop' = [cop EXCEPT ![t] = "none"]
    /\ UNCHANGED <<cfile, cfg, watches, lastState, cbLog, seen>>
    /\ UNCHANGED <<lifeVars, confVars, sigVars, cacheVars, logVars, defVars>>

\* A Watch that registers the callback and does not invoke it.
WatchWithoutCallback(t, k) ==
    /\ t = "app"
    /\ cpc[t] = "idle"
    /\ readers = {}
    /\ watches[k] < MaxWatches
    /\ watches' = [watches EXCEPT ![k] = @ + 1]
    /\ cbLog' = <<>>
    /\ seen' = [seen EXCEPT ![k] = cfg[k]]
    /\ cret' = <<t, "Watch", "ok">>
    /\ UNCHANGED <<cfile, cfg, lastState, readers, cpc, cop>>
    /\ UNCHANGED <<lifeVars, confVars, sigVars, cacheVars, logVars, defVars>>

\* Watch(key, callback): under the write lock, appends the callback to the
\* key's list and invokes it with the key's value.
Watch(t, k) ==
    /\ t = "app"
    /\ cpc[t] = "idle"
    /\ readers = {}
    /\ watches[k] < MaxWatches
    /\ watches' = [watches EXCEPT ![k] = @ + 1]
    /\ cbLog' = << <<k, watches[k] + 1, cfg[k]>> >>
    /\ seen' = [seen EXCEPT ![k] = cfg[k]]
    /\ cret' = <<t, "Watch", "ok">>
    /\ UNCHANGED <<cfile, cfg, lastState, readers, cpc, cop>>
    /\ UNCHANGED <<lifeVars, confVars, sigVars, cacheVars, logVars, defVars>>

\* The configuration, its file and its watchers.
NextConfig ==
    \/ \E k \in ConfKeys, v \in ConfValues : EditFile(k, v)
    \/ \E t \in ConfThreads, ok \in BOOLEAN : LoadFromFile(t, ok)
    \/ \E t \in ConfThreads, ok \in BOOLEAN : Reload(t, ok)
    \/ \E t \in ConfThreads : UpdateLastState(t)
    \/ \E t \in ConfThreads : ConfReturn(t)
    \/ \E t \in ConfThreads, k \in ConfKeys : Watch(t, k)

SpecConfig == Init /\ [][NextConfig]_vars

\* C16: when the serve goroutine ends, it only logs what ListenAndServe
\* returned: an error other than ErrServerClosed at error level, ErrServerClosed
\* at info level. The step changes neither started nor the stop channel, and it
\* makes no thread enter Stop, so an unexpected serve error leaves the service
\* started.
C16_ServeErrorOnlyLogged ==
    [][\A r \in Runs :
          (spc[r] # "done" /\ spc'[r] = "done")
          => /\ logged[r] = "none"
             /\ logged'[r] = (IF serr'[r] = "ErrServerClosed" THEN "info" ELSE "error")
             /\ UNCHANGED <<started, stopChan, inShutdown, tpc, stopWinners, lastRet>>]_vars

C16_Witness ==
    /\ run = 1
    /\ spc[1] = "done"
    /\ serr[1] = "bind"
    /\ logged[1] = "error"
    /\ started
    /\ stopWinners[1] = {}
    /\ lastRet = <<"caller", "Health", "ok">>

\* C15: every use of started and of the server happens while the controller's
\* lock is held: no goroutine has used either field outside the lock.
C15_AllAccessUnderLock == unlocked = {}

\* C19: Name() returns the name given at construction and the address keeps its
\* construction-time value, whatever Start, Stop, Health and SetHandler calls
\* have been made.
C19_NameAddrImmutable ==
    /\ name = CtorName
    /\ addr = CtorAddr
    /\ lastRet[2] = "Name" => lastRet[3] = CtorName

C19_Witness ==
    /\ lastRet = <<"caller", "Name", CtorName>>
    /\ handler # CtorHandler
    /\ run = 2
    /\ inShutdown
    /\ started

\* C17: WaitOSSignalHandler invokes its callback exactly once, after the
\* first subscribed signal has arrived, however many signals arrive; called
\* with no signal it returns in the same step and never invokes the callback.
C17_CallbackExactlyOnce ==
    [][/\ calls' <= 1
       /\ calls' = 1 => (notified' /\ subscribed' # {})
       /\ calls' # calls /\ calls' = 1 => (wpc = "wait" /\ notified)
       /\ wpc' \in {"callback", "returned"} /\ subscribed' # {} => calls' = 1
       /\ wpc' = "wait" => calls' = 0
       /\ subscribed' = {} => (calls' = 0 /\ wpc' \notin {"wait", "callback"})]_vars

C17_Witness ==
    /\ wpc = "returned"
    /\ subscribed = {"TERM"}
    /\ calls = 1
    /\ delivered = MaxSignals
    /\ delivered >= 2

\* C18: the blocking Start() returns the error of StartDaemon in the step that
\* finds the controller started, without waiting for a signal; otherwise it
\* returns only after a subscribed signal has arrived and the callback's Stop
\* has returned, and then started is clear unless a later Start was accepted.
C18_BlockingStart ==
    [][/\ (lastRet' = <<"main", "Start", "AlreadyStarted">> /\ lastRet' # lastRet)
              => /\ started
                 /\ tpc[Main] = "none" /\ tpc'[Main] = "none"
                 /\ UNCHANGED <<sigVars, cacheVars, restVars>>
       /\ (tpc[Main] # "none" /\ tpc'[Main] = "none" /\ ~panicked')
              => /\ notified
                 /\ calls = 1
                 /\ delivered >= 1
                 /\ tpc[Main] = "done"
                 /\ lastRet' = <<"main", "Start", "ok">>
                 /\ run = mainRun => ~started'
                 /\ cancelled'[mainRun]]_vars

C18_Witness ==
    /\ lastRet = <<"main", "Start", "ok">>
    /\ tpc[Main] = "none"
    /\ Main \in stopWinners[1]
    /\ run = 1
    /\ ~started
    /\ inShutdown
    /\ notified

\* C20: for a memory cache with or without a key prefix, Get(k) returns the
\* value of the latest Set(k, v, ttl) with a positive ttl that no Delete(k) or
\* Clear followed while less than ttl has passed since that Set, and the
\* not-found error when k was never set, was deleted or cleared, or more than
\* ttl has passed.
C20_GetReturnsLatestSet ==
    got # NoGot =>
        LET h == hist[got[1]]
        IN  /\ h = NoSet => got[2] = "NotFound"
            /\ (h # NoSet /\ h.ttl > 0 /\ now < h.at + h.ttl) => got[2] = h.val
            /\ (h # NoSet /\ h.ttl > 0 /\ now > h.at + h.ttl) => got[2] = "NotFound"

C20_Witness ==
    /\ prefix = "test"
    /\ got = <<"key1", "value2">>
    /\ hist["key1"] = [val |-> "value2", at |-> 1, ttl |-> 2]
    /\ now = 2
    /\ items["test:key2"].val = "value1"
    /\ items["test:key2"].exp = 1

\* C21: an entry set with a ttl of 0 has no expiration: as long as no Delete
\* of its key and no Clear followed the Set, Get returns its value however much
\* time has passed.
C21_ZeroTtlNeverExpires ==
    got # NoGot =>
        LET h == hist[got[1]]
        IN  (h # NoSet /\ h.ttl = 0) => got[2] = h.val

\* C22: GetMulti returns a map holding exactly the requested keys that Get
\* finds, each under the caller's key with its stored value; absent keys are
\* left out without an error, and the call fails, with no map, exactly when
\* the store reports an error other than not-found on a requested key.
C22_GetMultiPresentKeys ==
    gotMulti # NoMulti =>
        LET req == gotMulti.req
            present == {k \in req : Found(items[buildKey(prefix, k)])}
        IN  /\ gotMulti.storeFailed <=> gotMulti.err # "none"
            /\ gotMulti.err # "none" => gotMulti.isNil
            /\ gotMulti.err = "none" =>
                  /\ ~gotMulti.isNil
                  /\ DOMAIN gotMulti.map = present
                  /\ \A k \in present : gotMulti.map[k] = items[buildKey(prefix, k)].val
                  /\ \A k \in req : hist[k] = NoSet => k \notin DOMAIN gotMulti.map
                  /\ \A k \in req : (hist[k] # NoSet /\ hist[k].ttl > 0
                                       /\ now < hist[k].at + hist[k].ttl)
                                    => (k \in DOMAIN gotMulti.map
                                        /\ gotMulti.map[k] = hist[k].val)

C22_Witness ==
    /\ prefix = "test"
    /\ gotMulti.req = {"key1", "key2"}
    /\ gotMulti.err = "none"
    /\ DOMAIN gotMulti.map = {"key1"}
    /\ gotMulti.map["key1"] = "value2"
    /\ hist["key2"] # NoSet
    /\ now > 0

\* C23: Watch invokes the callback exactly once before it returns, with the
\* key's current value, and registers it: a later Reload that finds the key's
\* value different from the recorded one notifies every registered callback.
C23_WatchCallsBackOnce ==
    [][/\ \A k \in ConfKeys :
              watches'[k] # watches[k]
              => /\ watches'[k] = watches[k] + 1
                 /\ cbLog' = << <<k, watches'[k], cfg[k]>> >>
                 /\ cfg' = cfg
                 /\ cret' = <<"app", "Watch", "ok">>
                 /\ readers' = {}
       /\ \A t \in ConfThreads :
              (cop[t] = "none" /\ cop'[t] = "Reload")
              => \A k \in ConfKeys : \A i \in 1..watches[k] :
                     cfg'[k] # lastState[k] => <<k, i, cfg'[k]>> \in Range(cbLog')]_vars

C23_Witness ==
    /\ cret = <<"app", "Watch", "ok">>
    /\ watches["port"] = 2
    /\ cbLog = << <<"port", 2, "v2">> >>
    /\ cfg["port"] = "v2"

\* C28: a Reload whose read succeeded never waits for the watch lock while its
\* own call holds it for reading, so it can return and release the lock.
C28_ReloadNeverSelfBlocks ==
    \A t \in ConfThreads : ~(cop[t] = "Reload" /\ cpc[t] = "update" /\ t \in readers)

\* C29: a successful Reload invokes the callbacks of a key, with the new value,
\* exactly when that value differs from the key's value at the previous load,
\* reload or Watch of the key.
C29_ReloadNotifiesChanges ==
    [][\A t \in ConfThreads :
          (cop[t] = "none" /\ cop'[t] = "Reload")
          => \A k \in ConfKeys : \A i \in 1..MaxWatches :
                 (<<k, i, cfg'[k]>> \in Range(cbLog'))
                     <=> (i <= watches[k] /\ cfg'[k] # seen[k])]_vars


\* ---------------------------------------------------------------------
\* The logger: levels, outputs and the package default.

Lower == <<"a", "b", "c", "d", "e", "f", "g", "h", "i", "j", "k", "l", "m",
           "n", "o", "p", "q", "r", "s", "t", "u", "v", "w", "x", "y", "z">>

Upper == <<"A", "B", "C", "D", "E", "F", "G", "H", "I", "J", "K", "L", "M",
           "N", "O", "P", "Q", "R", "S", "T", "U", "V", "W", "X", "Y", "Z">>

\* U+0130, the capital I with a dot above, whose lower case is the letter i.
DotI == "I-dot"

\* unicode.ToLower on one character.
LowerChar(c) ==
    IF c = DotI THEN "i"
    ELSE IF \E i \in DOMAIN Upper : Upper[i] = c
         THEN Lower[CHOOSE i \in DOMAIN Upper : Upper[i] = c]
         ELSE c

\* strings.ToLower.
ToLower(s) == [i \in DOMAIN s |-> LowerChar(s[i])]

Str_debug == <<"d", "e", "b", "u", "g">>

Str_info == <<"i", "n", "f", "o">>

Str_warn == <<"w", "a", "r", "n">>

Str_warning == <<"w", "a", "r", "n", "i", "n", "g">>

Str_error == <<"e", "r", "r", "o", "r">>

Str_dpanic == <<"d", "p", "a", "n", "i", "c">>

Str_panic == <<"p", "a", "n", "i", "c">>

Str_fatal == <<"f", "a", "t", "a", "l">>

\* ParseLevel with the strings.ToLower left out.
ParseLevelCaseSensitive(levelStr) ==
    CASE levelStr = Str_debug -> DebugLevel
      [] levelStr = Str_info -> InfoLevel
      [] levelStr \in {Str_warn, Str_warning} -> WarnLevel
      [] levelStr = Str_error -> ErrorLevel
      [] levelStr = Str_dpanic -> DPanicLevel
      [] levelStr = Str_panic -> PanicLevel
      [] levelStr = Str_fatal -> FatalLevel
      [] OTHER -> InfoLevel

\* ParseLevel: the switch on the lower-cased string.
ParseLevel(levelStr) ==
    LET s == ToLower(levelStr)
    IN  CASE s = Str_debug -> DebugLevel
          [] s = Str_info -> InfoLevel
          [] s \in {Str_warn, Str_warning} -> WarnLevel
          [] s = Str_error -> ErrorLevel
          [] s = Str_dpanic -> DPanicLevel
          [] s = Str_panic -> PanicLevel
          [] s = Str_fatal -> FatalLevel
          [] OTHER -> InfoLevel

\* The level names and the level each stands for.
LevelNames == {<<Str_debug, DebugLevel>>, <<Str_info, InfoLevel>>, <<Str_warn, WarnLevel>>,
               <<Str_warning, WarnLevel>>, <<Str_error, ErrorLevel>>,
               <<Str_dpanic, DPanicLevel>>, <<Str_panic, PanicLevel>>,
               <<Str_fatal, FatalLevel>>}

\* The upper-case forms of a lower-case letter.
UpperForms(c) ==
    {Upper[i] : i \in {j \in DOMAIN Lower : Lower[j] = c}} \cup (IF c = "i" THEN {DotI} ELSE {})

\* s is w up to the case of its letters.
IsCaseVariant(s, w) ==
    /\ Len(s) = Len(w)
    /\ \A i \in DOMAIN w : s[i] = w[i] \/ s[i] \in UpperForms(w[i])

\* Every spelling of the word w in upper and lower case.
RECURSIVE Variants(_)
Variants(w) ==
    IF w = <<>> THEN {<<>>}
    ELSE {<<c>> \o t : c \in {Head(w)} \cup UpperForms(Head(w)), t \in Variants(Tail(w))}

\* Strings that are no level name in any case.
OtherStrs == {<<>>,
              <<"i", "n", "v", "a", "l", "i", "d">>,
              <<"t", "r", "a", "c", "e">>,
              <<"w", "a", "r", "n", " ">>,
              <<" ", "i", "n", "f", "o">>,
              <<"w", "a", "r", "n", "i", "n", "g", "s">>,
              <<"E", "R", "R">>,
              <<"d", "e", "b", "u">>,
              <<"F", "A", "T", "A", "L", "!">>,
              <<"2">>,
              <<"-", "1">>}

\* The strings the program passes to SetLevelString.
LevelStrs == UNION {Variants(n[1]) : n \in LevelNames} \cup OtherStrs

\* Logger.SetLevel: only the field changes; the cores keep their level.
SetLevel(lv) ==
    /\ level' = lv
    /\ levelArg' = NoStr
    /\ UNCHANGED <<outputs, cores, sink, added, msgs, lastLog>>
    /\ UNCHANGED <<lifeVars, confVars, sigVars, cacheVars, cfgVars, defVars>>

\* Logger.SetLevelString.
SetLevelString(levelStr) ==
    /\ level' = ParseLevel(levelStr)
    /\ levelArg' = levelStr
    /\ UNCHANGED <<outputs, cores, sink, added, msgs, lastLog>>
    /\ UNCHANGED <<lifeVars, confVars, sigVars, cacheVars, cfgVars, defVars>>

NextLevel ==
    \/ \E levelStr \in LevelStrs : SetLevelString(levelStr)
    \/ \E lv \in Levels : SetLevel(lv)

SpecLevel == Init /\ [][NextLevel]_vars

\* How many writers a logger has at most, and how many messages are logged.
MaxOutputs == 2

MaxMsgs == 2

\* The levels SetLevel is called with while messages are logged.
SetLevels == {DebugLevel, InfoLevel, ErrorLevel}

\* The levels of Logger.Debug, Info, Warn and Error.
LogLevels == {DebugLevel, InfoLevel, WarnLevel, ErrorLevel}

\* One core for every output, at the logger's level of the moment.
BuildCores(outs, lv) == [i \in DOMAIN outs |-> [out |-> outs[i], lvl |-> lv]]

\* zapcore's tee: every core enabled for the level writes the message.
RECURSIVE WriteCores(_, _, _, _)
WriteCores(cs, lv, m, snk) ==
    IF cs = <<>> THEN snk
    ELSE LET c == Head(cs)
             snk1 == IF lv >= c.lvl
                     THEN [snk EXCEPT ![c.out] = Append(@, m)]
                     ELSE snk
         IN  WriteCores(Tail(cs), lv, m, snk1)

\* Logger.AddOutput.
AddOutput(w) ==
    /\ Len(outputs) < MaxOutputs
    /\ outputs' = Append(outputs, w)
    /\ cores' = BuildCores(outputs', level)
    /\ added' = added \cup {w}
    /\ UNCHANGED <<level, levelArg, sink, msgs, lastLog>>
    /\ UNCHANGED <<lifeVars, confVars, sigVars, cacheVars, cfgVars, defVars>>

\* ClearOutputs with the zap logger left as it was.
ClearOutputsKeepsCores ==
    /\ outputs' = <<>>
    /\ cores' = cores
    /\ added' = {}
    /\ UNCHANGED <<level, levelArg, sink, msgs, lastLog>>
    /\ UNCHANGED <<lifeVars, confVars, sigVars, cacheVars, cfgVars, defVars>>

\* Logger.ClearOutputs.
ClearOutputs ==
    /\ outputs' = <<>>
    /\ cores' = <<>>
    /\ added' = {}
    /\ UNCHANGED <<level, levelArg, sink, msgs, lastLog>>
    /\ UNCHANGED <<lifeVars, confVars, sigVars, cacheVars, cfgVars, defVars>>

\* Logger.Log, which Debug, Info, Warn and Error call.
Log(lv) ==
    /\ msgs < MaxMsgs
    /\ msgs' = msgs + 1
    /\ sink' = WriteCores(cores, lv, msgs', sink)
    /\ lastLog' = <<lv, msgs'>>
    /\ UNCHANGED <<level, levelArg, outputs, cores, added>>
    /\ UNCHANGED <<lifeVars, confVars, sigVars, cacheVars, cfgVars, defVars>>

NextLogger ==
    \/ \E w \in Writers : AddOutput(w)
    \/ ClearOutputs
    \/ \E lv \in LogLevels : Log(lv)
    \/ \E lv \in SetLevels : SetLevel(lv)

SpecLogger == Init /\ [][NextLogger]_vars

\* How many loggers the program creates.
MaxLoggers == 4

\* NewLogger called by the program: a logger of its own.
NewLogger ==
    /\ allocated < MaxLoggers
    /\ allocated' = allocated + 1
    /\ UNCHANGED <<defaultLogger, once, dret, lastSet, lastDefault>>
    /\ UNCHANGED <<lifeVars, confVars, sigVars, cacheVars, cfgVars, logVars>>

\* Default: the first call creates a logger and stores it, every call returns
\* what defaultLogger holds.
Default ==
    /\ once \/ allocated < MaxLoggers
    /\ once' = TRUE
    /\ allocated' = IF once THEN allocated ELSE allocated + 1
    /\ defaultLogger' = IF once THEN defaultLogger ELSE allocated + 1
    /\ dret' = <<"Default", defaultLogger'>>
    /\ lastDefault' = defaultLogger'
    /\ UNCHANGED lastSet
    /\ UNCHANGED <<lifeVars, confVars, sigVars, cacheVars, cfgVars, logVars>>

\* SetDefault(l), with nil or a logger the program has.
SetDefault(l) ==
    /\ l \in 0..allocated
    /\ defaultLogger' = l
    /\ lastSet' = l
    /\ lastDefault' = Unset
    /\ dret' = NoDefault
    /\ UNCHANGED <<once, allocated>>
    /\ UNCHANGED <<lifeVars, confVars, sigVars, cacheVars, cfgVars, logVars>>

\* Instance.
InstanceCall ==
    /\ dret' = <<"Instance", defaultLogger>>
    /\ UNCHANGED <<defaultLogger, once, allocated, lastSet, lastDefault>>
    /\ UNCHANGED <<lifeVars, confVars, sigVars, cacheVars, cfgVars, logVars>>

NextDefault ==
    \/ NewLogger
    \/ Default
    \/ \E l \in 0..MaxLoggers : SetDefault(l)
    \/ InstanceCall

SpecDefault == Init /\ [][NextDefault]_vars

\* C24: ParseLevel maps every spelling, in any case, of debug, info, warn,
\* warning, error, dpanic, panic and fatal to its level and every other string
\* to InfoLevel; it has a result for every string.
C24_ParseLevelTable ==
    levelArg # NoStr =>
        /\ level \in Levels
        /\ \A n \in LevelNames : IsCaseVariant(levelArg, n[1]) => level = n[2]
        /\ (\A n \in LevelNames : ~IsCaseVariant(levelArg, n[1])) => level = InfoLevel

C24_Witness ==
    /\ levelArg = <<"W", "a", "R", "n", "I", "n", "G">>
    /\ level = WarnLevel

\* The cores were built at the level the logger has now.
CoresCurrent == \A i \in DOMAIN cores : cores[i].lvl = level

\* C25: a message logged at or above the logger's level is written to exactly
\* the writers added since the last ClearOutputs, and to no other writer; what
\* a writer received before stays.
C25_LogReachesAddedOutputs ==
    [][(msgs' = msgs + 1 /\ CoresCurrent)
          => \A w \in Writers :
                /\ (msgs' \in Range(sink'[w])) <=> (lastLog'[1] >= level /\ w \in added)
                /\ SubSeq(sink'[w], 1, Len(sink[w])) = sink[w]]_vars

C25_Witness ==
    /\ msgs = 2
    /\ sink["w1"] = <<1>>
    /\ sink["w2"] = <<2>>
    /\ added = {"w2"}
    /\ lastLog = <<InfoLevel, 2>>

\* C30: two calls of Default with no SetDefault between them return the same
\* instance, and after SetDefault(l) every Default and Instance returns l.
C30_DefaultIsShared ==
    [][dret'[1] \in {"Default", "Instance"}
          => /\ lastSet' # Unset => dret'[2] = lastSet'
             /\ (dret'[1] = "Default" /\ lastDefault # Unset) => dret'[2] = lastDefault]_vars


\* The serve goroutine of run r holds a listener on the address or is about
\* to bind one.
ServingTask(r) == bound[r] \/ (spc[r] = "listen" /\ ~inShutdown)

\* C26: at most one serve goroutine of the controller is bound to the address
\* or trying to bind it, also when a Start is accepted while an earlier Stop
\* has reset started and has not yet shut the server down.
C26_OneServingTask == Cardinality({r \in Runs : ServingTask(r)}) <= 1

\* One caller starts and stops the controller while its runs' contexts are
\* cancelled, and the scheduler runs every goroutine that can take a step: a
\* Stop past its locked section goes on, and a watcher whose select has a
\* ready case takes one.
NextLive ==
    \/ StartOk(Other)
    \/ StopEnter(Other)
    \/ \E t \in Threads : StopClose(t)
    \/ \E t \in Threads : StopShutdown(t)
    \/ \E r \in Runs : ServeListen(r)
    \/ \E r \in Runs : ServeTrack(r)
    \/ \E r \in Runs : ServeClosed(r)
    \/ \E r \in Runs : Cancel(r)
    \/ \E r \in Runs : WatcherCancelled(r)
    \/ \E r \in Runs : WatcherStopped(r)

SpecLive ==
    /\ Init
    /\ [][NextLive]_vars
    /\ \A t \in Threads : WF_vars(StopClose(t)) /\ WF_vars(StopShutdown(t))
    /\ \A r \in Runs : WF_vars(WatcherStopped(r)) /\ WF_vars(WatcherCancelled(r))

\* The watcher of run r has returned, or went with the process.
WatcherEnded(r) == tpc[Watcher(r)] \in {"done", "dead"}

\* C27: every watcher goroutine of a run that a Stop ended terminates: once
\* started is reset, the watcher of every run begun so far leaves its select
\* and returns, through the closed stop channel or through its own Stop.
C27_WatchersTerminate ==
    \A r \in Runs : (r <= run /\ ~started /\ ~panicked) ~> WatcherEnded(r)

C27_Witness ==
    /\ ~started
    /\ ~panicked
    /\ run = 2
    /\ stopChan = "closed"
    /\ tpc[Watcher(1)] = "done"
    /\ tpc[Watcher(2)] = "done"
    /\ \A r \in Runs : ~cancelled[r]

====
